---- MODULE Spec2Model ----
(***************************************************************************)
(* A model of maxify: the unit parsers of maxify/units.py, the project     *)
(* configuration of maxify/config.py and the task update of the shell in   *)
(* maxify/main.py.                                                         *)
(*                                                                         *)
(* Text is a sequence of one-character strings.  Python values carry a     *)
(* type tag t: None, int, Decimal (coefficient c and e fractional digits,  *)
(* the value c * 10^-e), str, and a raised exception.                      *)
(***************************************************************************)
EXTENDS Integers, Sequences, FiniteSets, TLC

(* ------------------------------ bounds --------------------------------- *)

\* Longest raw text drawn over Alphabet.
MaxLen == 3
\* Most numeral+unit tokens in a generated compound expression.
MaxTokens == 2
\* Most metric/value pairs in one task command.
MaxBatch == 2
\* Most data points a task holds before the shell stops taking updates.
MaxPoints == 2

(* ------------------------------ values --------------------------------- *)

NoneV == [t |-> "None"]

IntV(n) == [t |-> "int", n |-> n]

Dec(c, e) == [t |-> "Decimal", c |-> c, e |-> e]

StrV(chars) == [t |-> "str", chars |-> chars]

\* A class object, by its name.
ClassV(name) == [t |-> "class", name |-> name]

Raise(exc, msg) == [t |-> "raise", exc |-> exc, msg |-> msg]

TrueV == [t |-> "bool", b |-> TRUE]

FalseV == [t |-> "bool", b |-> FALSE]

RECURSIVE Pow10(_)
Pow10(k) == IF k = 0 THEN 1 ELSE 10 * Pow10(k - 1)

IsNum(v) == v.t \in {"int", "Decimal"}

\* The coefficient and the fractional digits of a number.
Coef(v) == IF v.t = "int" THEN v.n ELSE v.c

Frac(v) == IF v.t = "int" THEN 0 ELSE v.e

\* Python's == between int and Decimal values: numeric equality.
NumEq(a, b) ==
    LET e == IF Frac(a) > Frac(b) THEN Frac(a) ELSE Frac(b)
    IN Coef(a) * Pow10(e - Frac(a)) = Coef(b) * Pow10(e - Frac(b))

\* Python's truth value: None, 0 and Decimal zero are falsy.
Truthy(v) ==
    CASE v.t = "None" -> FALSE
      [] v.t = "int" -> v.n # 0
      [] v.t = "Decimal" -> v.c # 0
      [] v.t = "str" -> v.chars # << >>
      [] v.t = "bool" -> v.b
      [] OTHER -> TRUE

\* Decimal * int: the exponent is kept.
DecMulInt(d, m) == Dec(d.c * m, d.e)

\* Decimal + Decimal: the result has the larger number of fractional digits.
DecAdd(a, b) ==
    LET e == IF a.e > b.e THEN a.e ELSE b.e
    IN Dec(a.c * Pow10(e - a.e) + b.c * Pow10(e - b.e), e)

(* ------------------------------- text ---------------------------------- *)

DigitChars == {"0", "1", "2", "3", "4", "5", "6", "7", "8", "9"}

LowerChars ==
    {"a", "b", "c", "d", "e", "f", "g", "h", "i", "j", "k", "l", "m",
     "n", "o", "p", "q", "r", "s", "t", "u", "v", "w", "x", "y", "z"}

UpperChars ==
    {"A", "B", "C", "D", "E", "F", "G", "H", "I", "J", "K", "L", "M",
     "N", "O", "P", "Q", "R", "S", "T", "U", "V", "W", "X", "Y", "Z"}

\* [A-Za-z]
LetterChars == LowerChars \cup UpperChars

\* \s, as far as the texts drawn here hold whitespace.
SpaceChars == {" "}

DigitVal(c) ==
    CASE c = "0" -> 0 [] c = "1" -> 1 [] c = "2" -> 2 [] c = "3" -> 3
      [] c = "4" -> 4 [] c = "5" -> 5 [] c = "6" -> 6 [] c = "7" -> 7
      [] c = "8" -> 8 [] c = "9" -> 9

DigitChar(d) ==
    CASE d = 0 -> "0" [] d = 1 -> "1" [] d = 2 -> "2" [] d = 3 -> "3"
      [] d = 4 -> "4" [] d = 5 -> "5" [] d = 6 -> "6" [] d = 7 -> "7"
      [] d = 8 -> "8" [] d = 9 -> "9"

\* s[i..j], empty when j < i.
Sub(s, i, j) == SubSeq(s, i, j)

AllIn(s, C) == \A k \in 1..Len(s) : s[k] \in C

\* The value of a run of digits, 0 for the empty run.
RECURSIVE DigitsVal(_)
DigitsVal(ds) ==
    IF ds = << >> THEN 0
    ELSE 10 * DigitsVal(Sub(ds, 1, Len(ds) - 1)) + DigitVal(ds[Len(ds)])

\* str(n) of a natural number.
RECURSIVE NatStr(_)
NatStr(n) ==
    IF n < 10 THEN <<DigitChar(n)>>
    ELSE Append(NatStr(n \div 10), DigitChar(n % 10))

\* n as exactly k digits, zero-padded on the left (n < 10^k).
RECURSIVE PadStr(_, _)
PadStr(n, k) ==
    IF k = 0 THEN << >>
    ELSE Append(PadStr(n \div 10, k - 1), DigitChar(n % 10))

\* The last position of the longest run of characters of C that starts at i
\* (i - 1 when s[i] is not in C): a greedy C* from position i.
RunEnd(s, i, C) ==
    CHOOSE j \in (i - 1)..Len(s) :
        /\ (j = Len(s) \/ s[j + 1] \notin C)
        /\ \A k \in i..j : s[k] \in C

\* str.strip(): leading and trailing whitespace removed.
Strip(s) ==
    LET a == RunEnd(s, 1, SpaceChars) + 1
        b == IF a > Len(s) THEN Len(s)
             ELSE CHOOSE j \in a..Len(s) :
                     /\ s[j] \notin SpaceChars
                     /\ \A k \in (j + 1)..Len(s) : s[k] \in SpaceChars
    IN Sub(s, a, b)

(* --------------------------- Int and Float ----------------------------- *)

\* The message of a ParsingError: a fixed prefix and the text it names.
Msg(prefix, chars) == [prefix |-> prefix, text |-> chars]

\* int(s) of a text made of digits, '.', ':', whitespace and letters:
\* surrounding whitespace is dropped and what is left must be digits.
Int_parse(s) ==
    LET body == Strip(s.chars)
    IN IF body # << >> /\ AllIn(body, DigitChars)
       THEN IntV(DigitsVal(body))
       ELSE Raise("ParsingError", Msg("Invalid int expression: ", s.chars))

\* Decimal(s) of such a text: surrounding whitespace is dropped and what is
\* left must be digits with at most one '.', at least one digit in all.
Float_parse(s) ==
    LET body == Strip(s.chars)
        d == RunEnd(body, 1, DigitChars)
        p == IF d + 1 <= Len(body) /\ body[d + 1] = "." THEN d + 1 ELSE d
        f == RunEnd(body, p + 1, DigitChars)
    IN IF f = Len(body) /\ (d >= 1 \/ f > p)
       THEN Dec(DigitsVal(Sub(body, 1, d) \o Sub(body, p + 1, f)), f - p)
       ELSE Raise("ParsingError", Msg("Invalid float expression: ", s.chars))

\* str(value) of a number or None.
PyStr(v) ==
    CASE v.t = "int" -> NatStr(v.n)
      [] v.t = "Decimal" ->
            IF v.e = 0 THEN NatStr(v.c)
            ELSE NatStr(v.c \div Pow10(v.e)) \o <<".">>
                     \o PadStr(v.c % Pow10(v.e), v.e)
      [] v.t = "None" -> <<"N", "o", "n", "e">>

(* ------------------------- Duration: clock format ---------------------- *)

\* %H is 2[0-3]|[0-1]\d|\d, %M is [0-5]\d|\d, %S is 6[0-1]|[0-5]\d|\d.
FieldOk(f, kind) ==
    /\ Len(f) \in {1, 2}
    /\ AllIn(f, DigitChars)
    /\ Len(f) = 2 =>
         CASE kind = "H" -> f[1] \in {"0", "1"} \/ (f[1] = "2" /\ DigitVal(f[2]) <= 3)
           [] kind = "M" -> DigitVal(f[1]) <= 5
           [] kind = "S" -> DigitVal(f[1]) <= 5 \/ (f[1] = "6" /\ DigitVal(f[2]) <= 1)

\* Whether the fields of lengths c[1], c[2] (, c[3]), joined by ':', of the
\* given kinds, are a prefix of s.
CutOk(s, kinds, c) ==
    \A k \in 1..Len(kinds) :
        LET from == 1 + (k - 1) + (IF k > 1 THEN c[1] ELSE 0)
                      + (IF k > 2 THEN c[2] ELSE 0)
            to == from + c[k] - 1
        IN /\ to <= Len(s)
           /\ FieldOk(Sub(s, from, to), kinds[k])
           /\ k < Len(kinds) => (to + 1 <= Len(s) /\ s[to + 1] = ":")

\* The ways the format's pattern matches a prefix of s.
Cuts(s, kinds) == {c \in [1..Len(kinds) -> {1, 2}] : CutOk(s, kinds, c)}

\* The pattern tries the two-digit alternatives of a field first, the
\* fields from left to right.
CutPri(c) == (IF Len(c) > 2 THEN c[3] ELSE 0) + 2 * c[2] + 4 * c[1]

BestCut(C) == CHOOSE x \in C : \A y \in C : CutPri(x) >= CutPri(y)

CutEnd(c) == c[1] + 1 + c[2] + (IF Len(c) > 2 THEN 1 + c[3] ELSE 0)

\* <<hour, minute, second>> of the fields cut by c.
CutFields(s, c) ==
    << DigitsVal(Sub(s, 1, c[1])),
       DigitsVal(Sub(s, c[1] + 2, c[1] + 1 + c[2])),
       IF Len(c) > 2
       THEN DigitsVal(Sub(s, c[1] + c[2] + 3, c[1] + c[2] + 2 + c[3]))
       ELSE 0 >>

\* Text left over after the match and a second above 59 are ValueErrors.
CheckCut(s, c, f) == IF CutEnd(c) # Len(s) \/ f[3] > 59 THEN << >> ELSE f

StrptimeCut(s, c) == CheckCut(s, c, CutFields(s, c))

StrptimeOf(s, C) == IF C = {} THEN << >> ELSE StrptimeCut(s, BestCut(C))

\* datetime.strptime(s, fmt).time() for fmt "%H:%M:%S" (kinds H, M, S) or
\* "%H:%M" (kinds H, M): <<hour, minute, second>>, or << >> for a
\* ValueError.
Strptime(s, kinds) == StrptimeOf(s, Cuts(s, kinds))

\* dt after the two attempts: the later success replaces the earlier.
LaterOf(a, b) == IF b # << >> THEN b ELSE a

\* TimeOfDay with the multipliers of the hour and the minute exchanged.
TimeOfDay_swapped(dt) ==
    IF dt # << >> THEN IntV(dt[1] * 60 + dt[2] * 3600 + dt[3]) ELSE NoneV

\* The seconds since midnight when dt is set (a datetime is always truthy),
\* None otherwise.
TimeOfDay(dt) ==
    IF dt # << >> THEN IntV(dt[1] * 3600 + dt[2] * 60 + dt[3]) ELSE NoneV

\* Duration._try_parse_time_fmt: "%H:%M:%S" first, then "%H:%M".
try_parse_time_fmt(s) ==
    TimeOfDay(LaterOf(Strptime(s.chars, <<"H", "M", "S">>),
                      Strptime(s.chars, <<"H", "M">>)))

(* ----------------------- Duration: compound scan ------------------------ *)

\* Duration._durations: the unit words of each multiplier, in order.
durations ==
    << [units |-> {<<"d", "a", "y", "s">>, <<"d", "a", "y">>, <<"d">>},
        mult |-> 86400],
       [units |-> {<<"h", "o", "u", "r", "s">>, <<"h", "o", "u", "r">>,
                   <<"h", "r", "s">>, <<"h", "r">>, <<"h">>},
        mult |-> 3600],
       [units |-> {<<"m", "i", "n", "u", "t", "e", "s">>,
                   <<"m", "i", "n", "u", "t", "e">>,
                   <<"m", "i", "n", "s">>, <<"m", "i", "n">>, <<"m">>},
        mult |-> 60],
       [units |-> {<<"s", "e", "c", "o", "n", "d", "s">>,
                   <<"s", "e", "c", "o", "n", "d">>,
                   <<"s", "e", "c", "s">>, <<"s", "e", "c">>, <<"s">>},
        mult |-> 1] >>

NoMatch == [found |-> FALSE]

\* The first alternative of Duration._expr_re at position i:
\* [A-Za-z]+ \s* \d+ \.? \d*  (groups unit, num).
ExprAlt1(s, i) ==
    LET l == RunEnd(s, i, LetterChars)
        w == RunEnd(s, l + 1, SpaceChars)
        d == RunEnd(s, w + 1, DigitChars)
        p == IF d + 1 <= Len(s) /\ s[d + 1] = "." THEN d + 1 ELSE d
        f == RunEnd(s, p + 1, DigitChars)
    IN IF l >= i /\ d >= w + 1
       THEN [found |-> TRUE, start |-> i, end |-> f,
             unit |-> Sub(s, i, l), num |-> Sub(s, w + 1, f)]
       ELSE NoMatch

\* The second alternative at position i:
\* \d+ \.? \d* \s* [A-Za-z]+  (groups num_alt, unit_alt).
ExprAlt2(s, i) ==
    LET d == RunEnd(s, i, DigitChars)
        p == IF d + 1 <= Len(s) /\ s[d + 1] = "." THEN d + 1 ELSE d
        f == RunEnd(s, p + 1, DigitChars)
        w == RunEnd(s, f + 1, SpaceChars)
        l == RunEnd(s, w + 1, LetterChars)
    IN IF d >= i /\ l >= w + 1
       THEN [found |-> TRUE, start |-> i, end |-> l,
             unit |-> Sub(s, w + 1, l), num |-> Sub(s, i, f)]
       ELSE NoMatch

\* The pattern tried at position i: the first alternative wins.
ExprAt(s, i) ==
    LET a == ExprAlt1(s, i)
    IN IF a.found THEN a ELSE ExprAlt2(s, i)

\* The leftmost position of I.
Leftmost(I) == CHOOSE i \in I : \A j \in I : i <= j

MatchAmong(s, I) == IF I = {} THEN NoMatch ELSE ExprAt(s, Leftmost(I))

\* The next match of finditer: the leftmost position from pos on where the
\* pattern matches.
NextMatch(s, pos) == MatchAmong(s, {i \in pos..Len(s) : ExprAt(s, i).found})

\* Decimal(num) of a matched numeral \d+\.?\d*.
DecimalOfNum(num) ==
    LET d == RunEnd(num, 1, DigitChars)
    IN IF d = Len(num) THEN Dec(DigitsVal(num), 0)
       ELSE Dec(DigitsVal(Sub(num, 1, d) \o Sub(num, d + 2, Len(num))),
                Len(num) - d - 1)

\* found_units: the entries of _durations whose words hold the unit.
FoundUnits(unit) == SelectSeq(durations, LAMBDA u : unit \in u.units)

\* ScanStep assigning the token's seconds instead of adding them.
ScanStep_assign(s, m, found, value) ==
    IF Len(found) = 0
    THEN Raise("ParsingError",
               Msg("Invalid duration expression: ", Sub(s, m.start, m.end)))
    ELSE DecMulInt(DecimalOfNum(m.num), found[1].mult)

\* ScanStep passing over a token whose unit word is unknown.
ScanStep_skip(s, m, found, value) ==
    IF Len(found) = 0 THEN value
    ELSE DecAdd(value, DecMulInt(DecimalOfNum(m.num), found[1].mult))

\* One matched token m with found_units: raise when there is none, else add
\* numeral * multiplier to the running value.
ScanStep(s, m, found, value) ==
    IF Len(found) = 0
    THEN Raise("ParsingError",
               Msg("Invalid duration expression: ", Sub(s, m.start, m.end)))
    ELSE DecAdd(value, DecMulInt(DecimalOfNum(m.num), found[1].mult))

\* The matches of finditer from position pos on, in order.
RECURSIVE Matches(_, _)
MatchesAfter(s, m) == IF ~m.found THEN << >> ELSE <<m>> \o Matches(s, m.end + 1)

Matches(s, pos) == MatchesAfter(s, NextMatch(s, pos))

\* ScanLoop taking a text without any match for an invalid expression.
ScanLoop_strict(s, ms) ==
    LET value[k \in 0..Len(ms)] ==
            IF k = 0 THEN Dec(0, 0)
            ELSE IF value[k - 1].t = "raise" THEN value[k - 1]
            ELSE ScanStep(s, ms[k], FoundUnits(ms[k].unit), value[k - 1])
    IN IF Len(ms) = 0
       THEN Raise("ParsingError", Msg("Invalid duration expression: ", s))
       ELSE value[Len(ms)]

\* The for loop over the matches ms: the value after each pass; a raised
\* ParsingError ends the loop.
ScanLoop(s, ms) ==
    LET value[k \in 0..Len(ms)] ==
            IF k = 0 THEN Dec(0, 0)
            ELSE IF value[k - 1].t = "raise" THEN value[k - 1]
            ELSE ScanStep(s, ms[k], FoundUnits(ms[k].unit), value[k - 1])
    IN value[Len(ms)]

Scan(s) == ScanLoop(s, Matches(s, 1))

\* The clock value when it is truthy, else the compound scan.
ClockOrScan(s, value) == IF Truthy(value) THEN value ELSE Scan(s.chars)

\* Duration.parse without the pass-through of Decimal and int arguments:
\* strptime raises TypeError on them.
Duration_parse_nopass(s) ==
    CASE s.t = "None" -> NoneV
      [] s.t = "str" -> ClockOrScan(s, try_parse_time_fmt(s))
      [] OTHER -> Raise("TypeError", "strptime() argument 1 must be str")

\* Duration.parse
Duration_parse(s) ==
    CASE s.t = "None" -> NoneV
      [] s.t = "Decimal" -> s
      [] s.t = "int" -> Dec(s.n, 0)
      [] s.t = "str" -> ClockOrScan(s, try_parse_time_fmt(s))

(* --------------------------- unit inference ---------------------------- *)

\* units: the unit kinds in the order they are tried.
units == <<"Duration", "Int", "Float">>

\* unit_type.parse(str_value)
UnitParse(kind, s) ==
    CASE kind = "Duration" -> Duration_parse(s)
      [] kind = "Int" -> Int_parse(s)
      [] kind = "Float" -> Float_parse(s)

\* DetermineEnds taking any value that parsed, falsy or not.
DetermineEnds_any(value) ==
    {k \in 1..Len(units) :
        IF value[k].t = "raise" THEN value[k].exc # "ParsingError" ELSE TRUE}

\* The loop of determine_unit_and_value over the parsed values: it ends at
\* the first kind whose value is truthy, or whose parse raised something
\* other than ParsingError, which leaves the function.
DetermineEnds(value) ==
    {k \in 1..Len(units) :
        IF value[k].t = "raise" THEN value[k].exc # "ParsingError"
        ELSE Truthy(value[k])}

DetermineAt(value, k) ==
    IF value[k].t = "raise" THEN value[k] ELSE <<ClassV(units[k]), value[k]>>

DetermineOf(value, Ends) ==
    IF Ends = {} THEN <<NoneV, NoneV>> ELSE DetermineAt(value, Leftmost(Ends))

DetermineAmong(value) == DetermineOf(value, DetermineEnds(value))

determine_unit_and_value(s) ==
    DetermineAmong([k \in 1..Len(units) |-> UnitParse(units[k], s)])

(* ------------------------- project configuration ---------------------- *)

\* The classes of config.py derived from Unit, and Unit itself.
UnitClasses == {"Unit", "Int", "Float", "Duration", "Enum", "String"}

\* inspect.isclass(units): "str" stands for a class that is no Unit, any
\* other value for an object that is no class.
IsClass(u) == u \in UnitClasses \cup {"str"}

\* issubclass(units, Unit)
IsUnitSubclass(u) == u \in UnitClasses

\* Metric.__init__ refusing a default value that is no member of the range.
Metric_init_checked(name, units_, desc, range, default_value) ==
    IF ~IsClass(units_)
    THEN Raise("ConfigError", "Units specified must be a Unit class.")
    ELSE IF ~IsUnitSubclass(units_)
    THEN Raise("ConfigError", "A Metric's units must be a valid type of Unit.")
    ELSE IF /\ range.t # "None"
            /\ default_value.t # "None"
            /\ \A i \in 1..Len(range.items) : range.items[i] # default_value.n
    THEN Raise("ConfigError", "default outside range")
    ELSE [t |-> "Metric", name |-> name, units |-> units_, desc |-> desc,
          range |-> range, default_value |-> default_value]

\* Metric.__init__: the units are checked, the other fields are stored as
\* they are given.
Metric_init(name, units_, desc, range, default_value) ==
    IF ~IsClass(units_)
    THEN Raise("ConfigError", "Units specified must be a Unit class.")
    ELSE IF ~IsUnitSubclass(units_)
    THEN Raise("ConfigError", "A Metric's units must be a valid type of Unit.")
    ELSE [t |-> "Metric", name |-> name, units |-> units_, desc |-> desc,
          range |-> range, default_value |-> default_value]

\* self.metrics[name] = Metric(...): a ConfigError of the constructor
\* leaves the mapping as it was.
StoreMetric(ms, name, m) ==
    IF m.t = "raise" THEN [metrics |-> ms, res |-> m]
    ELSE [metrics |-> [n \in DOMAIN ms \cup {name} |->
                          IF n = name THEN m ELSE ms[n]],
          res |-> NoneV]

\* Project.add_metric without the check of the name: the new Metric
\* replaces the old one.
Project_add_metric_overwrite(ms, name, units_, desc, range, default_value) ==
    StoreMetric(ms, name, Metric_init(name, units_, desc, range, default_value))

\* Project.add_metric on the mapping ms: the mapping afterwards and what the
\* call returned or raised.
Project_add_metric(ms, name, units_, desc, range, default_value) ==
    IF name \in DOMAIN ms
    THEN [metrics |-> ms,
          res |-> Raise("ConfigError",
                        "A metric named {0} already exists for this project.")]
    ELSE StoreMetric(ms, name,
                     Metric_init(name, units_, desc, range, default_value))

\* Project.metric: self.metrics[name], a KeyError for a name that is no key.
Project_metric(ms, name) ==
    IF name \in DOMAIN ms THEN ms[name] ELSE Raise("KeyError", name)

\* metric_name.replace("_", " ").title() on the names the shell is given.
Normalize(name) ==
    CASE name = "story_points" -> "Story Points"
      [] name = "Story Points" -> "Story Points"
      [] name = "compile_time" -> "Compile Time"
      [] name = "Compile Time" -> "Compile Time"
      [] name = "coding" -> "Coding"
      [] name = "Coding" -> "Coding"
      [] name = "Velocity" -> "Velocity"

\* The rest of _get_metric after the first lookup.
GetMetricRetry(ms, metric_name, metric) ==
    IF metric.t = "raise" THEN metric
    ELSE IF Truthy(metric) THEN metric
    ELSE Project_metric(ms, Normalize(metric_name))

\* MaxifyCmd._get_metric: the name as it is, then the normalized name when
\* the first lookup returned something falsy.
get_metric(ms, metric_name) ==
    GetMetricRetry(ms, metric_name, Project_metric(ms, metric_name))

(* ------------------------------ the shell ------------------------------ *)

\* A list of legal values, or NoneV for a metric without a range.
ListV(items) == [t |-> "list", items |-> items]

\* value in range
InRange(metric, value) ==
    \E i \in 1..Len(metric.range.items) : NumEq(IntV(metric.range.items[i]), value)

\* Metric.validate accepting every value.
Metric_validate_any(metric, value) == value

\* Metric.validate: the value when the metric has no range or the value is a
\* member of it, a ValidationError otherwise.
Metric_validate(metric, value) ==
    IF metric.range.t = "None" \/ InRange(metric, value) THEN value
    ELSE Raise("ValidationError", metric.name)

\* The pairs of a batch that fail validation.
Invalid(pairs) ==
    {k \in 1..Len(pairs) : Metric_validate(pairs[k][1], pairs[k][2]).t = "raise"}

\* Project.update_task on the data points of one task: every pair is
\* validated, and only when all of them pass are they appended, in order.
Project_update_task(points, pairs) ==
    IF Invalid(pairs) # {}
    THEN [points |-> points,
          res |-> Raise("ValidationError", pairs[Leftmost(Invalid(pairs))][1].name)]
    ELSE [points |-> points \o [k \in 1..Len(pairs) |->
                                   [metric |-> pairs[k][1].name,
                                    value |-> pairs[k][2]]],
          res |-> NoneV]

\* metric.units.parse(value_str): the parsers of maxify/units.py; a unit
\* kind without a parser of its own inherits Unit.parse.
Units_parse(units_, s) ==
    CASE units_ = "Int" -> Int_parse(s)
      [] units_ = "Float" -> Float_parse(s)
      [] units_ = "Duration" -> Duration_parse(s)
      [] OTHER -> Raise("NotImplementedError", "Method not implemented on base class")

\* What _update_task did: whether it called update_task and with which
\* pairs, the error it printed, and what it returned or raised.
Outcome(called, pairs, printed, res) ==
    [called |-> called, pairs |-> pairs, printed |-> printed, res |-> res]

\* The pass after value = metric.units.parse(value_str): the pair it
\* appends, or the outcome of the return after a ParsingError, or the
\* exception that leaves the function.
StepParsed(metric, value) ==
    IF value.t = "raise"
    THEN IF value.exc = "ParsingError"
         THEN Outcome(FALSE, << >>, value.msg, NoneV)
         ELSE Outcome(FALSE, << >>, NoneV, value)
    ELSE [pair |-> <<metric, value>>]

\* The pass after metric = self._get_metric(metric_name).
StepResolved(metric, metric_name, value_str) ==
    IF metric.t = "raise" THEN Outcome(FALSE, << >>, NoneV, metric)
    ELSE IF ~Truthy(metric)
    THEN Outcome(FALSE, << >>, Msg("Invalid metric: ", metric_name), NoneV)
    ELSE StepParsed(metric, Units_parse(metric.units, StrV(value_str)))

\* One pass of the loop of MaxifyCmd._update_task, on args[i] and
\* args[i + 1] (i counts from 1).
UpdateStep(ms, args, i) ==
    IF i + 1 > Len(args)
    THEN Outcome(FALSE, << >>, NoneV, Raise("IndexError", "list index out of range"))
    ELSE StepResolved(get_metric(ms, args[i]), args[i], args[i + 1])

\* LoopOf passing over the passes that failed: the pairs of the other
\* passes go to update_task.
LoopOf_partial(step, Ends) ==
    Outcome(TRUE,
            SelectSeq([j \in 1..Len(step) |->
                          IF j \in Ends THEN << >> ELSE step[j].pair],
                      LAMBDA p : p # << >>),
            NoneV, TrueV)

\* The loop over the passes: it ends at the first pass that leaves the
\* function; after the last pass the pairs gathered go to update_task and
\* True is returned.
LoopOf(step, Ends) ==
    IF Ends = {}
    THEN Outcome(TRUE, [j \in 1..Len(step) |-> step[j].pair], NoneV, TrueV)
    ELSE step[Leftmost(Ends)]

LoopAmong(step) ==
    LoopOf(step, {j \in 1..Len(step) : "pair" \notin DOMAIN step[j]})

\* The loop of MaxifyCmd._update_task over range(0, len(args), 2).
UpdateLoop(ms, args) ==
    LoopAmong([j \in 1..((Len(args) + 1) \div 2) |-> UpdateStep(ms, args, 2 * j - 1)])

\* The call of update_task that ends _update_task: an exception of it
\* leaves _update_task, otherwise True is returned.
AfterUpdate(o, u) ==
    [points |-> u.points,
     out |-> IF u.res.t = "raise" THEN Outcome(TRUE, o.pairs, NoneV, u.res)
             ELSE o]

AfterLoop(points, o) ==
    IF ~o.called THEN [points |-> points, out |-> o]
    ELSE AfterUpdate(o, Project_update_task(points, o.pairs))

\* MaxifyCmd._update_task with the project's update_task: the data points
\* of the task afterwards and the outcome.
update_task(ms, points, args) == AfterLoop(points, UpdateLoop(ms, args))

(* ------------------------------- inputs -------------------------------- *)

\* The characters raw texts are drawn over.
Alphabet == {"0", "1", ".", ":", " ", "h", "x"}

RECURSIVE TextsOfLen(_)
TextsOfLen(n) ==
    IF n = 0 THEN {<< >>}
    ELSE {Append(s, c) : s \in TextsOfLen(n - 1), c \in Alphabet}

RawTexts == UNION {TextsOfLen(n) : n \in 0..MaxLen}

\* Texts of the documentation and the tests.
ExampleTexts ==
    {<<"3", "h">>, <<"a", "b", "c">>, <<"1", "h", " ", "3", "0", "m">>,
     <<"4", "2">>, <<"4", ".", "2">>, <<"1", "H">>,
     <<"h", "o", "u", "r", "s", " ", "2">>,
     <<"1", " ", "d", "a", "y", ",", " ", "1", ":", "3", "0", ":", "0", "0">>,
     <<"2", "4", ":", "0", "0">>, <<"0", ":", "6", "0">>,
     <<"0", ":", "0", ":", "6", "0">>}

\* Clock fields drawn for HH:MM[:SS] texts.
ClockHours == {0, 1, 9, 10, 23}

ClockMinutes == {0, 5, 30, 59}

ClockSeconds == {0, 7, 59}

\* A field as text: two digits when padded, else as short as it gets.
FieldText(n, pad) == IF pad THEN PadStr(n, 2) ELSE NatStr(n)

ClockText(c) ==
    FieldText(c.h, c.pad) \o <<":">> \o FieldText(c.m, c.pad)
        \o (IF c.secs THEN <<":">> \o FieldText(c.s, c.pad) ELSE << >>)

ClockSources ==
    {[kind |-> "clock", h |-> h, m |-> m, s |-> s, pad |-> pad, secs |-> secs] :
        h \in ClockHours, m \in ClockMinutes, s \in ClockSeconds,
        pad \in BOOLEAN, secs \in BOOLEAN}

\* The numerals of generated tokens as text, with coefficient and
\* fractional digits: 2, 1.5 .
TokenNumerals ==
    {[text |-> <<"2">>, c |-> 2, e |-> 0],
     [text |-> <<"1", ".", "5">>, c |-> 15, e |-> 1]}

\* The unit words of generated tokens: one of each synonym set, and a word
\* of no set (the upper-case H).
TokenUnits == {<<"d">>, <<"h", "r">>, <<"m", "i", "n">>, <<"s">>, <<"H">>}

\* A token: numeral then unit word, or unit word then numeral.
Tokens ==
    {[num |-> n, unit |-> u, unitFirst |-> uf] :
        n \in TokenNumerals, u \in TokenUnits, uf \in BOOLEAN}

\* The text of a token, with or without a blank between its two parts.
TokenText(k, blank) ==
    IF k.unitFirst THEN k.unit \o (IF blank THEN <<" ">> ELSE << >>) \o k.num.text
    ELSE k.num.text \o (IF blank THEN <<" ">> ELSE << >>) \o k.unit

\* Tokens joined by single blanks.
RECURSIVE CompoundText(_, _)
CompoundText(ks, blank) ==
    IF Len(ks) = 1 THEN TokenText(ks[1], blank)
    ELSE CompoundText(Sub(ks, 1, Len(ks) - 1), blank) \o <<" ">>
             \o TokenText(ks[Len(ks)], blank)

CompoundSources ==
    {[kind |-> "compound", tokens |-> ks, blank |-> b] :
        ks \in UNION {[1..n -> Tokens] : n \in 1..MaxTokens}, b \in BOOLEAN}

\* Arguments of Duration.parse that are no text.
ValueInputs == {NoneV, IntV(0), IntV(5400), Dec(0, 0), Dec(54000, 1)}

\* Every drawn input: where it comes from and the argument itself.
Inputs ==
    {[src |-> [kind |-> "raw"], arg |-> StrV(s)] : s \in RawTexts \cup ExampleTexts}
    \cup {[src |-> c, arg |-> StrV(ClockText(c))] : c \in ClockSources}
    \cup {[src |-> c, arg |-> StrV(CompoundText(c.tokens, c.blank))] : c \in CompoundSources}
    \cup {[src |-> [kind |-> "value"], arg |-> v] : v \in ValueInputs}

\* Metric definitions drawn for add_metric.
AddNames == {"Story Points", "Coding"}

AddUnits == {"Int", "Duration", "str", "5"}

AddDescs == {NoneV}

AddRanges == {NoneV, ListV(<<1, 2, 3, 5, 8, 13>>)}

AddDefaults == {NoneV, IntV(0), IntV(3)}

\* Names looked up in a project.
LookupNames == {"Story Points", "story_points", "Coding", "coding", "Velocity"}

\* The project of the test fixture, as add_metric builds it.
FixtureProject ==
    Project_add_metric(
        Project_add_metric(<< >>, "Story Points", "Int", NoneV,
                           ListV(<<1, 2, 3, 5, 8>>), IntV(3)).metrics,
        "Compile Time", "Duration", NoneV, NoneV, NoneV).metrics

TaskNames == {"build-1"}

\* The pairs of a task command: a metric name and a raw value.  A value
\* in the range, one outside it, one that does not parse, a duration, and a
\* name only its normalized form finds.
BatchPairs ==
    {<<"Story Points", <<"5">>>>, <<"Story Points", <<"4">>>>,
     <<"Story Points", <<"1", "h">>>>, <<"Compile Time", <<"1", "h">>>>,
     <<"compile_time", <<"5">>>>}

\* The arguments after the task name: pairs of a name and a raw value,
\* possibly with a name left over at the end.
RECURSIVE Flatten(_)
Flatten(ps) ==
    IF ps = << >> THEN << >>
    ELSE Flatten(Sub(ps, 1, Len(ps) - 1)) \o ps[Len(ps)]

BatchArgs ==
    {Flatten(ps) \o rest :
        ps \in UNION {[1..n -> BatchPairs] : n \in 0..MaxBatch},
        rest \in {<< >>, <<"Velocity">>}}

\* Values handed to Metric.validate.
ValidateValues == {IntV(4), IntV(5), Dec(5, 0), Dec(54000, 1)}

(* ---------------------------- state machine --------------------------- *)

VARIABLES
    metrics,      \* Project.metrics: metric name -> Metric
    data_points,  \* task name -> the task's data points, in order
    src,          \* how the argument of the unit parsers was made
    arg,          \* the argument of the unit parsers
    last          \* the last call: its operation, arguments and outcome

vars == <<metrics, data_points, src, arg, last>>

NoCall == [op |-> "none"]

NoSource == [kind |-> "none"]

\* A new Project, no task updated yet.
Init ==
    /\ metrics = << >>
    /\ data_points = [k \in TaskNames |-> << >>]
    /\ src = NoSource
    /\ arg = NoneV
    /\ last = NoCall

\* project.add_metric(name, units, desc, range, default_value)
AddMetric ==
    \E name \in AddNames, u \in AddUnits, desc \in AddDescs,
       range \in AddRanges, dv \in AddDefaults :
        LET r == Project_add_metric(metrics, name, u, desc, range, dv)
        IN /\ metrics' = r.metrics
           /\ last' = [op |-> "add_metric", name |-> name, units |-> u,
                       desc |-> desc, range |-> range, default_value |-> dv,
                       res |-> r.res]
           /\ UNCHANGED <<data_points, src, arg>>

\* project.metric(name)
LookupMetric ==
    \E name \in LookupNames :
        /\ last' = [op |-> "metric", name |-> name,
                    res |-> Project_metric(metrics, name)]
        /\ UNCHANGED <<metrics, data_points, src, arg>>

\* shell._get_metric(metric_name)
GetMetric ==
    \E name \in LookupNames :
        /\ last' = [op |-> "_get_metric", name |-> name,
                    res |-> get_metric(metrics, name)]
        /\ UNCHANGED <<metrics, data_points, src, arg>>

Next == AddMetric \/ LookupMetric \/ GetMetric

Spec == Init /\ [][Next]_vars

\* The shell on the fixture's project.
InitShell ==
    /\ metrics = FixtureProject
    /\ data_points = [k \in TaskNames |-> << >>]
    /\ src = NoSource
    /\ arg = NoneV
    /\ last = NoCall

\* The step of a task command whose _update_task left the task's data
\* points as r.points with outcome r.out.
TaskDone(task, args, r) ==
    /\ data_points' = [data_points EXCEPT ![task] = r.points]
    /\ last' = [op |-> "do_task", task |-> task, args |-> args, out |-> r.out]

\* The command "task TASK_NAME args...": without arguments the interactive
\* update, which changes nothing and returns False; with arguments
\* _update_task.  A task takes updates until it holds MaxPoints data points.
DoTask ==
    \E task \in TaskNames, args \in BatchArgs :
        /\ Len(data_points[task]) < MaxPoints
        /\ IF Len(args) = 0
           THEN TaskDone(task, args,
                         [points |-> data_points[task],
                          out |-> Outcome(FALSE, << >>, NoneV, FalseV)])
           ELSE TaskDone(task, args, update_task(metrics, data_points[task], args))
        /\ UNCHANGED <<metrics, src, arg>>

\* metric.validate(value) on a metric of the project
Validate ==
    \E name \in DOMAIN metrics, value \in ValidateValues :
        /\ last' = [op |-> "validate", name |-> name, value |-> value,
                    res |-> Metric_validate(metrics[name], value)]
        /\ UNCHANGED <<metrics, data_points, src, arg>>

NextShell == DoTask \/ Validate

SpecShell == InitShell /\ [][NextShell]_vars

\* The unit parsers on one drawn input.
InitUnits ==
    /\ metrics = << >>
    /\ data_points = [k \in TaskNames |-> << >>]
    /\ \E i \in Inputs : src = i.src /\ arg = i.arg
    /\ last = NoCall

\* Duration.parse(arg)
DurationParse ==
    /\ last' = [op |-> "Duration.parse", res |-> Duration_parse(arg)]
    /\ UNCHANGED <<metrics, data_points, src, arg>>

\* determine_unit_and_value(arg) of a text
DetermineUnit ==
    /\ arg.t = "str"
    /\ last' = [op |-> "determine_unit_and_value",
                res |-> determine_unit_and_value(arg)]
    /\ UNCHANGED <<metrics, data_points, src, arg>>

\* The second parse, of the value the first one returned.
ReparseCall(first) ==
    [op |-> "reparse", first |-> first, res |-> Duration_parse(first)]

\* Duration.parse(Duration.parse(arg)), after the first parse returned
Reparse ==
    /\ last.op = "Duration.parse"
    /\ last.res.t # "raise"
    /\ last' = ReparseCall(last.res)
    /\ UNCHANGED <<metrics, data_points, src, arg>>

\* The second parse, of the text str() makes of the first value.
ReparseStrCall(first, text) ==
    [op |-> "reparse_str", first |-> first, text |-> text,
     res |-> Duration_parse(StrV(text))]

\* Duration.parse(str(Duration.parse(arg))), after the first parse returned
ReparseStr ==
    /\ last.op = "Duration.parse"
    /\ last.res.t # "raise"
    /\ last' = ReparseStrCall(last.res, PyStr(last.res))
    /\ UNCHANGED <<metrics, data_points, src, arg>>

NextUnits == DurationParse \/ DetermineUnit \/ Reparse \/ ReparseStr

SpecUnits == InitUnits /\ [][NextUnits]_vars

(* ------------------- claims on the unit parsers (SpecUnits) ------------ *)

\* Values compared as Python's == compares them: numbers by their value,
\* anything else by identity of the value.
Same(a, b) == IF IsNum(a) /\ IsNum(b) THEN NumEq(a, b) ELSE a = b

\* C6: for every clock text HH:MM:SS or HH:MM (SS taken as 0), padded or
\* not, Duration.parse returns a number equal to HH*3600 + MM*60 + SS, also
\* when that number is zero.
C6_ClockSeconds ==
    (last.op = "Duration.parse" /\ src.kind = "clock") =>
        /\ IsNum(last.res)
        /\ NumEq(last.res,
                 IntV(src.h * 3600 + src.m * 60 + (IF src.secs THEN src.s ELSE 0)))

\* Midnight, where the clock value is falsy and the compound scan gives the
\* result.
C6_Witness ==
    /\ last.op = "Duration.parse"
    /\ src.kind = "clock"
    /\ src.h = 0 /\ src.m = 0 /\ src.secs /\ src.s = 0
    /\ last.res = Dec(0, 0)

\* The multiplier the four synonym sets give a unit word.
ClaimDays == {<<"d", "a", "y", "s">>, <<"d", "a", "y">>, <<"d">>}

ClaimHours ==
    {<<"h", "o", "u", "r", "s">>, <<"h", "o", "u", "r">>, <<"h", "r", "s">>,
     <<"h", "r">>, <<"h">>}

ClaimMinutes ==
    {<<"m", "i", "n", "u", "t", "e", "s">>, <<"m", "i", "n", "u", "t", "e">>,
     <<"m", "i", "n", "s">>, <<"m", "i", "n">>, <<"m">>}

ClaimSeconds ==
    {<<"s", "e", "c", "o", "n", "d", "s">>, <<"s", "e", "c", "o", "n", "d">>,
     <<"s", "e", "c", "s">>, <<"s", "e", "c">>, <<"s">>}

ClaimKnown(u) == u \in ClaimDays \cup ClaimHours \cup ClaimMinutes \cup ClaimSeconds

ClaimMultiplier(u) ==
    CASE u \in ClaimDays -> 24 * 60 * 60
      [] u \in ClaimHours -> 60 * 60
      [] u \in ClaimMinutes -> 60
      [] u \in ClaimSeconds -> 1

\* The most fractional digits of a generated numeral.
TokenScale == CHOOSE e \in {n.e : n \in TokenNumerals} : \A n \in TokenNumerals : n.e <= e

\* The sum of n_i * multiplier(unit_i) over the tokens ks, in units of
\* 10^-TokenScale.
TokenSum(ks) ==
    LET sum[k \in 0..Len(ks)] ==
            IF k = 0 THEN 0
            ELSE sum[k - 1] + ks[k].num.c * Pow10(TokenScale - ks[k].num.e)
                                  * ClaimMultiplier(ks[k].unit)
    IN sum[Len(ks)]

\* C7: for a compound expression of tokens whose unit words all come from
\* the four synonym sets, Duration.parse returns the sum over all tokens of
\* n_i * multiplier(unit_i).
C7_CompoundSum ==
    (/\ last.op = "Duration.parse"
     /\ src.kind = "compound"
     /\ \A k \in 1..Len(src.tokens) : ClaimKnown(src.tokens[k].unit)) =>
        /\ IsNum(last.res)
        /\ NumEq(last.res, Dec(TokenSum(src.tokens), TokenScale))

\* "1.5hr 2min" or one of its spellings: 5400 + 120 seconds.
C7_Witness ==
    /\ last.op = "Duration.parse"
    /\ src.kind = "compound"
    /\ Len(src.tokens) = 2
    /\ src.tokens[1].unit = <<"h", "r">> /\ src.tokens[1].num.c = 15
    /\ src.tokens[2].unit = <<"m", "i", "n">> /\ src.tokens[2].num.c = 2
    /\ last.res = Dec(55200, 1)

\* The matches of the scan whose unit word is in no synonym set.
BadMatches(ms) == {k \in 1..Len(ms) : ~ClaimKnown(ms[k].unit)}

\* The ParsingError that names the first of the matches Bad of ms.
Offending(s, ms, Bad) ==
    Raise("ParsingError",
          Msg("Invalid duration expression: ",
              Sub(s, ms[Leftmost(Bad)].start, ms[Leftmost(Bad)].end)))

OffendingIn(s, ms) ==
    BadMatches(ms) # {} => last.res = Offending(s, ms, BadMatches(ms))

\* C10: when a token matched by the compound scan has a unit word that is
\* in none of the four synonym sets, Duration.parse raises the ParsingError
\* that names the matched fragment, however many valid tokens came before
\* it; no partial sum is returned.
C10_UnknownUnit ==
    (last.op = "Duration.parse" /\ arg.t = "str") =>
        OffendingIn(arg.chars, Matches(arg.chars, 1))

\* A valid token, then a token with the unit word H: the error names the
\* second token.
C10_Witness ==
    /\ last.op = "Duration.parse"
    /\ src.kind = "compound"
    /\ Len(src.tokens) = 2
    /\ ClaimKnown(src.tokens[1].unit)
    /\ src.tokens[2].unit = <<"H">>
    /\ last.res.t = "raise"
    /\ last.res.exc = "ParsingError"
    /\ last.res.msg.text = TokenText(src.tokens[2], src.blank)

\* A parse that succeeded with a truthy value.
Qualifies(v) == v.t # "raise" /\ Truthy(v)

\* What C9 says determine_unit_and_value returns, given the three parses.
C9_Expected(d, i, f) ==
    IF Qualifies(d) THEN <<ClassV("Duration"), d>>
    ELSE IF Qualifies(i) THEN <<ClassV("Int"), i>>
    ELSE IF Qualifies(f) THEN <<ClassV("Float"), f>>
    ELSE <<NoneV, NoneV>>

\* C9: determine_unit_and_value returns (kind, value) for the first of
\* Duration, Int, Float whose parse succeeds with a truthy value, and
\* (None, None) when there is none; it raises for no text.  '3h' gives
\* (Duration, 10800) and 'abc' gives (None, None).
C9_Inference ==
    last.op = "determine_unit_and_value" =>
        /\ last.res = C9_Expected(Duration_parse(arg), Int_parse(arg), Float_parse(arg))
        /\ arg.chars = <<"3", "h">> => last.res = <<ClassV("Duration"), Dec(10800, 0)>>
        /\ arg.chars = <<"a", "b", "c">> => last.res = <<NoneV, NoneV>>

\* '1': the Duration parse gives a falsy zero, so Int is the kind.
C9_Witness ==
    /\ last.op = "determine_unit_and_value"
    /\ arg.chars = <<"1">>
    /\ Duration_parse(arg) = Dec(0, 0)
    /\ last.res = <<ClassV("Int"), IntV(1)>>

\* C8 as stated: Duration.parse(str(Duration.parse(x))) equals
\* Duration.parse(x) for every x Duration.parse accepts.
C8_Original == last.op = "reparse_str" => Same(last.res, last.first)

\* C8 as amended: Duration.parse(Duration.parse(x)) equals
\* Duration.parse(x) for every x Duration.parse accepts; None stays None
\* and a number comes back as a Decimal.
C8_Idempotent ==
    last.op = "reparse" =>
        /\ Same(last.res, last.first)
        /\ IsNum(last.first) => last.res.t = "Decimal"

\* A clock text gave an int, and the second parse its Decimal.
C8_Witness ==
    /\ last.op = "reparse"
    /\ last.first.t = "int"
    /\ last.first.n # 0
    /\ last.res = Dec(last.first.n, 0)

(* --------------------- claims on the project (Spec) -------------------- *)

\* C1: an add_metric call whose name is already a key of the project's
\* metrics raises ConfigError and leaves the mapping as it was; a name, once
\* registered, keeps the Metric of the first successful add, and no entry
\* is removed.
C1_NoOverwrite ==
    [][/\ (last'.op = "add_metric" /\ last'.name \in DOMAIN metrics) =>
            /\ last'.res.t = "raise"
            /\ last'.res.exc = "ConfigError"
            /\ metrics' = metrics
       /\ \A n \in DOMAIN metrics :
            n \in DOMAIN metrics' /\ metrics'[n] = metrics[n]]_vars

\* A second add under a registered name, with valid units and another
\* range or default value than the registered Metric has, was refused.
C1_Witness ==
    /\ last.op = "add_metric"
    /\ last.name \in DOMAIN metrics
    /\ IsUnitSubclass(last.units)
    /\ last.res.t = "raise"
    /\ last.res.exc = "ConfigError"
    /\ \/ metrics[last.name].range # last.range
       \/ metrics[last.name].default_value # last.default_value

\* Whether the default value d is a member of the range r.
DefaultInRange(r, d) == \E i \in 1..Len(r.items) : NumEq(IntV(r.items[i]), d)

\* C4 as stated: every Metric of a project whose range and default value
\* are both set has its default value in the range, and an add_metric call
\* whose default value is outside the range raises ConfigError.
C4_Original ==
    /\ \A n \in DOMAIN metrics :
          (metrics[n].range.t # "None" /\ metrics[n].default_value.t # "None") =>
              DefaultInRange(metrics[n].range, metrics[n].default_value)
    /\ (/\ last.op = "add_metric"
        /\ last.range.t # "None"
        /\ last.default_value.t # "None"
        /\ ~DefaultInRange(last.range, last.default_value)) =>
            (last.res.t = "raise" /\ last.res.exc = "ConfigError")

\* C4 as amended: add_metric under a new name with units that are a Unit
\* class registers the Metric with the range and the default value as they
\* are given, whether or not the default value is a member of the range;
\* it raises ConfigError only for a registered name or for such units.
C4_StoredAsGiven ==
    [][last'.op = "add_metric" =>
          IF last'.name \in DOMAIN metrics \/ ~IsUnitSubclass(last'.units)
          THEN /\ last'.res.t = "raise"
               /\ last'.res.exc = "ConfigError"
               /\ metrics' = metrics
          ELSE /\ last'.res = NoneV
               /\ DOMAIN metrics' = DOMAIN metrics \cup {last'.name}
               /\ metrics'[last'.name].range = last'.range
               /\ metrics'[last'.name].default_value = last'.default_value
               /\ metrics'[last'.name].units = last'.units]_vars

\* A Metric was registered with a default value outside its range.
C4_Witness ==
    /\ last.op = "add_metric"
    /\ last.res = NoneV
    /\ last.name \in DOMAIN metrics
    /\ metrics[last.name].range = ListV(<<1, 2, 3, 5, 8, 13>>)
    /\ metrics[last.name].default_value = IntV(0)

\* What C5 says a lookup of the name returns from a falsy first result on.
C5_Retry(name) ==
    IF Normalize(name) \in DOMAIN metrics
    THEN last.res = metrics[Normalize(name)]
    ELSE last.res.t # "raise" /\ ~Truthy(last.res)

\* C5: Project.metric returns the Metric registered under exactly the name
\* and, for a name that is not registered, something falsy instead of
\* raising, so that _get_metric retries with the normalized name and
\* returns something falsy when both lookups find nothing.
C5_AbsentIsFalsy ==
    /\ last.op = "metric" =>
          IF last.name \in DOMAIN metrics THEN last.res = metrics[last.name]
          ELSE last.res.t # "raise" /\ ~Truthy(last.res)
    /\ last.op = "_get_metric" =>
          IF last.name \in DOMAIN metrics THEN last.res = metrics[last.name]
          ELSE C5_Retry(last.name)

(* --------------------- claims on the shell (SpecShell) ----------------- *)

\* The pairs of the arguments args of a task command.
PairCount(args) == Len(args) \div 2

PairMetric(args, j) == get_metric(metrics, args[2 * j - 1])

PairResolves(args, j) == PairMetric(args, j).t = "Metric"

PairValue(args, j) == Units_parse(PairMetric(args, j).units, StrV(args[2 * j]))

PairParses(args, j) == PairResolves(args, j) /\ PairValue(args, j).t # "raise"

\* Whether the value v is within the range of the metric m.
WithinRange(m, v) ==
    m.range.t = "None" \/ \E i \in 1..Len(m.range.items) : NumEq(IntV(m.range.items[i]), v)

PairInRange(args, j) ==
    PairParses(args, j) /\ WithinRange(PairMetric(args, j), PairValue(args, j))

\* Every name has its value and every pair resolves and parses.
BatchParses(args) ==
    /\ Len(args) = 2 * PairCount(args)
    /\ \A j \in 1..PairCount(args) : PairParses(args, j)

\* ... and every parsed value is within its metric's range.
BatchSucceeds(args) ==
    /\ BatchParses(args)
    /\ \A j \in 1..PairCount(args) : PairInRange(args, j)

\* C2 as stated: when a pair of the batch does not resolve, does not parse
\* or has a value outside its metric's range, the task's data points stay
\* as they were, and update_task is called only after every pair of the
\* batch has succeeded.
C2_Original ==
    [][(last'.op = "do_task" /\ Len(last'.args) > 0) =>
          /\ ~BatchSucceeds(last'.args) => data_points' = data_points
          /\ last'.out.called => BatchSucceeds(last'.args)]_vars

\* C2 as amended: _update_task calls update_task, once and with the parsed
\* pairs of the whole batch in order, exactly when every name has a value
\* and every pair resolves and parses; otherwise update_task is not called
\* and the task's data points stay as they were.  _update_task does not
\* look at the range: a parsed value outside it goes to update_task.
C2_ParsedBatch ==
    [][(last'.op = "do_task" /\ Len(last'.args) > 0) =>
          /\ last'.out.called <=> BatchParses(last'.args)
          /\ BatchParses(last'.args) =>
                last'.out.pairs =
                    [j \in 1..PairCount(last'.args) |->
                        <<PairMetric(last'.args, j), PairValue(last'.args, j)>>]
          /\ ~BatchParses(last'.args) => data_points' = data_points]_vars

\* update_task was called with a parsed value outside its metric's range.
C2_Witness ==
    /\ last.op = "do_task"
    /\ last.out.called
    /\ \E k \in 1..Len(last.out.pairs) :
          ~WithinRange(last.out.pairs[k][1], last.out.pairs[k][2])

\* C3: Metric.validate returns the value if and only if the metric's range
\* is unset or the value is a member of it, and raises ValidationError
\* otherwise (with the range 1, 2, 3, 5, 8, 13 it accepts 5 and rejects 4);
\* no data point of a task holds a value outside its metric's range.
C3_Validate ==
    /\ last.op = "validate" =>
          IF WithinRange(metrics[last.name], last.value)
          THEN last.res = last.value
          ELSE last.res.t = "raise" /\ last.res.exc = "ValidationError"
    /\ \A task \in TaskNames : \A k \in 1..Len(data_points[task]) :
          WithinRange(metrics[data_points[task][k].metric], data_points[task][k].value)
    /\ Metric_validate(Metric_init("Estimate", "Int", NoneV,
                                   ListV(<<1, 2, 3, 5, 8, 13>>), NoneV),
                       IntV(5)) = IntV(5)
    /\ Metric_validate(Metric_init("Estimate", "Int", NoneV,
                                   ListV(<<1, 2, 3, 5, 8, 13>>), NoneV),
                       IntV(4)).t = "raise"

\* A data point is recorded and validate has just refused the value 4 for
\* the metric with the range 1, 2, 3, 5, 8.
C3_Witness ==
    /\ last.op = "validate"
    /\ last.name = "Story Points"
    /\ last.value = IntV(4)
    /\ last.res.t = "raise"
    /\ \E task \in TaskNames : Len(data_points[task]) > 0

(* ------------- claims on texts without a token (SpecUnits) ------------- *)

\* A unit word followed by a numeral, with nothing but whitespace between
\* its last letter and the numeral's first digit.
WordThenNumeral(s) ==
    \E i \in 1..Len(s), j \in 1..Len(s) :
        /\ i < j
        /\ s[i] \in LetterChars
        /\ s[j] \in DigitChars
        /\ \A k \in (i + 1)..(j - 1) : s[k] \in SpaceChars

\* A numeral (digits with at most one '.', a digit first) followed by a
\* unit word, with nothing but whitespace between them.
NumeralThenWord(s) ==
    \E i \in 1..Len(s), j \in 1..Len(s) :
        /\ i < j
        /\ s[i] \in DigitChars
        /\ s[j] \in LetterChars
        /\ \E q \in i..(j - 1) :
              /\ \A k \in (i + 1)..q : s[k] \in DigitChars \cup {"."}
              /\ Cardinality({k \in (i + 1)..q : s[k] = "."}) <= 1
              /\ \A k \in (q + 1)..(j - 1) : s[k] \in SpaceChars

\* One or two digits that make a number below lim.
ClockField(f, lim) ==
    /\ Len(f) \in {1, 2}
    /\ \A k \in 1..Len(f) : f[k] \in DigitChars
    /\ DigitsVal(f) < lim

\* HH:MM or HH:MM:SS with HH below 24 and MM and SS below 60.
ValidClock(s) ==
    \E a \in 1..Len(s) :
        /\ s[a] = ":"
        /\ ClockField(Sub(s, 1, a - 1), 24)
        /\ \/ ClockField(Sub(s, a + 1, Len(s)), 60)
           \/ \E b \in (a + 1)..Len(s) :
                 /\ s[b] = ":"
                 /\ ClockField(Sub(s, a + 1, b - 1), 60)
                 /\ ClockField(Sub(s, b + 1, Len(s)), 60)

\* C11: Duration.parse(None) returns None; Duration.parse of the empty
\* text, and of every text that holds no numeral with a unit word and is no
\* valid clock text, raises nothing and returns the Decimal zero.
C11_NoTokenIsZero ==
    last.op = "Duration.parse" =>
        /\ arg = NoneV => last.res = NoneV
        /\ arg = StrV(<< >>) => last.res = Dec(0, 0)
        /\ (/\ arg.t = "str"
            /\ ~WordThenNumeral(arg.chars)
            /\ ~NumeralThenWord(arg.chars)
            /\ ~ValidClock(arg.chars)) => last.res = Dec(0, 0)

\* The empty text was parsed to the Decimal zero.
C11_Witness ==
    /\ last.op = "Duration.parse"
    /\ arg = StrV(<< >>)
    /\ last.res = Dec(0, 0)

====
